---- MODULE Spec2Model ----
(***************************************************************************)
(* DriveAware: camera capture, Haar-cascade face/eye detection and the     *)
(* detection loop of DrownessDetectionSystem (src/camera_module.py,        *)
(* src/main.py).                                                           *)
(*                                                                         *)
(* The vision library is opaque: a frame is represented by what the two    *)
(* cascades return on it.  Python values that may be None (frames, ROIs,   *)
(* detection lists, landmark dictionaries) are records carrying a tag, so  *)
(* that "x is None" is an equality test.                                   *)
(***************************************************************************)
EXTENDS Integers, Sequences, FiniteSets, TLC

\* ------------------------------------------------------------------ bounds
MaxFaces == 2        \* most rectangles the face cascade returns on a frame
MaxEyes == 3         \* most rectangles the eye cascade returns in a face ROI
MaxFrames == 2       \* most successful captures counted in frame_count
RoiDim == 12         \* largest frame side enumerated for extract_face_roi

\* ------------------------------------------------------- program constants
FRAME_WIDTH == 640
FRAME_HEIGHT == 480

\* ---------------------------------------------------------- Python values
None == [tag |-> "None"]

Max(a, b) == IF a >= b THEN a ELSE b
Min(a, b) == IF a <= b THEN a ELSE b

Rect(x, y, w, h) == [x |-> x, y |-> y, w |-> w, h |-> h]

\* A Python list (or the ndarray of rows detectMultiScale returns).
List(s) == [tag |-> "list", items |-> s]

\* Rectangles the face cascade may report in a 640x480 frame: one touching
\* the top-left corner, one in the interior and one touching the right edge;
\* the last two have equal areas.
FaceRects ==
    { Rect(0, 0, 100, 100), Rect(300, 200, 200, 100),
      Rect(FRAME_WIDTH - 100, 100, 100, 200) }

\* The sequences of at most n distinct elements of S: detectMultiScale
\* reports a rectangle once.
RECURSIVE SeqsUpTo(_, _)
SeqsUpTo(S, n) ==
    IF n = 0 THEN { <<>> }
    ELSE LET shorter == SeqsUpTo(S, n - 1)
         IN  shorter \cup
             { t \in { Append(s, e) : s \in shorter, e \in S } :
                 \A i, j \in DOMAIN t : i # j => t[i] # t[j] }

FaceLists == SeqsUpTo(FaceRects, MaxFaces)

\* The k-th rectangle the eye cascade reports, in ROI coordinates.
EyeRect(k) == Rect(20 * k, 30, 15, 10)
Eyes(n) == [k \in 1..n |-> EyeRect(k)]

\* A raw frame as cap.read() delivers it: its shape, what the face cascade
\* finds on it, how many eyes the eye cascade finds in a crop of it, and the
\* shapes drawn into its pixels so far.
RawFrame(w, h, faces, eyes) ==
    [tag |-> "frame", w |-> w, h |-> h, faces |-> faces, eyes |-> eyes,
     marks |-> {}]

CameraFrames ==
    { RawFrame(FRAME_WIDTH, FRAME_HEIGHT, fs, n) :
        fs \in FaceLists, n \in 0..MaxEyes }

\* ------------------------------------------------------------ FaceDetector
face_cascade(frame) == frame.faces
eye_cascade(region) == Eyes(region.eyes)

Area(f) == f.w * f.h

\* sorted(faces, key=lambda f: f[2] * f[3], reverse=True): a stable sort,
\* equal areas keep their original order.
RECURSIVE sorted_by_area_desc_wrong(_)
sorted_by_area_desc_wrong(s) ==
    IF s = <<>> THEN <<>>
    ELSE LET rest == sorted_by_area_desc_wrong(SubSeq(s, 1, Len(s) - 1))
             last == s[Len(s)]
             p == Cardinality({ i \in 1..Len(rest) : Area(rest[i]) <= Area(last) })
         IN  SubSeq(rest, 1, p) \o << last >> \o SubSeq(rest, p + 1, Len(rest))

RECURSIVE sorted_by_area_desc(_)
sorted_by_area_desc(s) ==
    IF s = <<>> THEN <<>>
    ELSE LET rest == sorted_by_area_desc(SubSeq(s, 1, Len(s) - 1))
             last == s[Len(s)]
             p == Cardinality({ i \in 1..Len(rest) : Area(rest[i]) >= Area(last) })
         IN  SubSeq(rest, 1, p) \o << last >> \o SubSeq(rest, p + 1, Len(rest))

\* s[:n]
Take(s, n) == SubSeq(s, 1, Min(n, Len(s)))

Draw(frame, kind, r) == [frame EXCEPT !.marks = @ \cup { << kind, r >> }]

\* detect_face(frame) -> (frame_bgr, detections, face_detected)
detect_face(frame) ==
    LET faces == face_cascade(frame)
    IN  IF Len(faces) > 0
        THEN LET kept == Take(sorted_by_area_desc(faces), 1)
             IN  [frame |-> Draw(frame, "face", kept[1]),
                  detections |-> List(kept),
                  face_detected |-> TRUE]
        ELSE [frame |-> frame, detections |-> None, face_detected |-> FALSE]

\* extract_face_roi(frame, detection): the crop frame[y_min:y_max, x_min:x_max],
\* a view of the frame's pixels.  int(0.1 * w) equals w \div 10 for every
\* non-negative integer width.
roi_margin_tenth_of_height(detection) == detection.h \div 10

roi_margin(detection) == detection.w \div 10

extract_face_roi_unclipped(frame, detection) ==
    IF detection = None THEN None
    ELSE LET margin == roi_margin(detection)
         IN  [tag |-> "roi",
              x_min |-> detection.x - margin,
              y_min |-> detection.y - margin,
              x_max |-> detection.x + detection.w + margin,
              y_max |-> detection.y + detection.h + margin,
              eyes |-> frame.eyes,
              marks |-> {}]

extract_face_roi(frame, detection) ==
    IF detection = None THEN None
    ELSE LET margin == roi_margin(detection)
         IN  [tag |-> "roi",
              x_min |-> Max(0, detection.x - margin),
              y_min |-> Max(0, detection.y - margin),
              x_max |-> Min(frame.w, detection.x + detection.w + margin),
              y_max |-> Min(frame.h, detection.y + detection.h + margin),
              eyes |-> frame.eyes,
              marks |-> {}]

\* get_face_landmarks(frame, face_region)
\*   -> (frame_bgr, landmarks_data, landmarks_detected)
\* The eye rectangles are drawn into face_region itself; "region" is
\* face_region as the caller sees it afterwards.
RECURSIVE DrawAll(_, _, _)
DrawAll(target, kind, rs) ==
    IF rs = <<>> THEN target
    ELSE DrawAll(Draw(target, kind, Head(rs)), kind, Tail(rs))

get_face_landmarks_one_eye(frame, face_region) ==
    IF face_region # None /\ Len(eye_cascade(face_region)) >= 1
    THEN LET eyes == eye_cascade(face_region)
             drawn == DrawAll(face_region, "eye", eyes)
         IN  [frame |-> frame,
              landmarks_data |-> [tag |-> "dict", eyes |-> eyes,
                                  eye_count |-> Len(eyes),
                                  face_region |-> drawn],
              landmarks_detected |-> TRUE,
              region |-> drawn]
    ELSE [frame |-> frame, landmarks_data |-> None,
          landmarks_detected |-> FALSE, region |-> face_region]

get_face_landmarks(frame, face_region) ==
    IF face_region # None /\ Len(eye_cascade(face_region)) >= 2
    THEN LET eyes == eye_cascade(face_region)
             drawn == DrawAll(face_region, "eye", eyes)
         IN  [frame |-> frame,
              landmarks_data |-> [tag |-> "dict", eyes |-> eyes,
                                  eye_count |-> Len(eyes),
                                  face_region |-> drawn],
              landmarks_detected |-> TRUE,
              region |-> drawn]
    ELSE [frame |-> frame, landmarks_data |-> None,
          landmarks_detected |-> FALSE, region |-> face_region]

\* ------------------------------------------------------------------- state
VARIABLES
    pc,                   \* where DrownessDetectionSystem's caller/loop stands
    is_running,           \* DrownessDetectionSystem.is_running
    frame_count,          \* DrownessDetectionSystem.frame_count
    eye_detector,         \* DrownessDetectionSystem.eye_detector
    alarm_system,         \* DrownessDetectionSystem.alarm_system
    cap_opened,           \* CameraCapture.cap.isOpened()
    current_frame,        \* CameraCapture.current_frame
    face_landmarks_data,  \* DrownessDetectionCamera.face_landmarks_data
    face_detected,        \* DrownessDetectionCamera.face_detected
    last_face_region,     \* DrownessDetectionCamera.last_face_region
    out,                  \* what the last capture_and_detect call returned
    read,                 \* how the cap.read() of that call ended
    calls,                \* the library calls that capture_and_detect call made
    pf,                   \* what process_frame did and returned this iteration
    shown,                \* the frame in the display window
    key,                  \* the key code polled this iteration
    exc,                  \* the except clause start_detection entered
    stopped,              \* what the last stop_detection did
    hooks,                \* the tags of the objects last passed to the hooks
    call                  \* the last direct call of a FaceDetector method

camvars == << cap_opened, current_frame, face_landmarks_data, face_detected,
              last_face_region >>
sysvars == << pc, is_running, frame_count, eye_detector, alarm_system,
              out, read, calls, pf, shown, key, exc, stopped, hooks >>
vars == << sysvars, camvars, call >>

\* Collaborator objects handed to the integration hooks.  Only the presence
\* of an attribute is part of the object; what a method does is chosen when
\* it is called.
EyeDetectors == { [tag |-> "eye_detector"] }
AlarmSystems == { [tag |-> "alarm_system", has_shutdown |-> b] : b \in BOOLEAN }

\* analyze_eyes returns a truthy value, a falsy value that is not None, or
\* None, or raises an Exception; trigger_alert and shutdown return or raise.
AnalyzeOutcomes == { "True", "False", "None", "raise" }
CallOutcomes == { "ok", "raise" }

\* cv2.waitKey(1) results: no key, ESC, 'q', 'a', and 'q' with a high bit set.
KeyCodes == { -1, 27, 113, 97, 369 }

\* ------------------------------------------------------------ CameraCapture
\* get_frame(): (ret, frame) and the new current_frame, for a read that
\* delivers (ok, raw).
get_frame_always_stores(ok, raw) ==
    [ret |-> ok, frame |-> IF ok THEN raw ELSE None,
     current_frame |-> IF ok THEN raw ELSE None]

get_frame(ok, raw) ==
    [ret |-> ok, frame |-> IF ok THEN raw ELSE None,
     current_frame |-> IF ok THEN raw ELSE current_frame]

\* --------------------------------------------------- DrownessDetectionCamera
\* face_roi is a view of the raw frame: what is drawn into it is drawn into
\* the frame, at the ROI's offset.
WriteThrough(frame, region) ==
    IF region = None THEN frame
    ELSE [frame EXCEPT !.marks = @ \cup
            { << m[1], Rect(m[2].x + region.x_min, m[2].y + region.y_min,
                            m[2].w, m[2].h) >> : m \in region.marks }]

\* Line 272: self.face_detected = landmarks_detected if landmarks_data
\* else face_detected (a landmark dictionary is truthy).
stored_face_detected_landmarks_only(l, d) == l.landmarks_detected

stored_face_detected(l, d) ==
    IF l.landmarks_data # None THEN l.landmarks_detected ELSE d.face_detected

\* capture_and_detect(), for a cap.read() that delivers (ok, raw): the
\* returned tuple (ret), the new values of the fields it assigns, whether
\* the read succeeded, and the library calls made.
capture_and_detect(ok, raw) ==
    LET g == get_frame(ok, raw)
    IN  IF ~g.ret
        THEN [read |-> g.ret,
              current_frame |-> g.current_frame,
              face_detected |-> face_detected,
              face_landmarks_data |-> face_landmarks_data,
              last_face_region |-> last_face_region,
              ret |-> [frame |-> None, face_detected |-> FALSE,
                       landmarks |-> None],
              calls |-> { "read" }]
        ELSE LET d == detect_face(g.frame)
             IN  IF d.face_detected /\ d.detections # None
                    /\ Len(d.detections.items) > 0
                 THEN LET face_roi ==
                              extract_face_roi(g.frame, d.detections.items[1])
                          l == get_face_landmarks(d.frame, face_roi)
                          fd == stored_face_detected(l, d)
                      IN  [read |-> g.ret,
                           current_frame |->
                               WriteThrough(g.current_frame, l.region),
                           face_detected |-> fd,
                           face_landmarks_data |-> l.landmarks_data,
                           last_face_region |-> l.region,
                           ret |-> [frame |-> l.frame, face_detected |-> fd,
                                    landmarks |-> l.landmarks_data],
                           calls |-> { "read", "face_cascade", "eye_cascade" }]
                 ELSE [read |-> g.ret,
                       current_frame |-> g.current_frame,
                       face_detected |-> FALSE,
                       face_landmarks_data |-> None,
                       last_face_region |-> last_face_region,
                       ret |-> [frame |-> d.frame, face_detected |-> FALSE,
                                landmarks |-> None],
                       calls |-> { "read", "face_cascade" }]

\* DrownessDetectionCamera.get_face_landmarks() and is_face_detected()
cam_get_face_landmarks == face_landmarks_data
is_face_detected == face_detected

\* ---------------------------------------------------- DrownessDetectionSystem
InLoop == pc \in { "capture", "process", "display", "poll" }

\* process_frame(frame), where analyze and alert are what analyze_eyes and
\* trigger_alert do if they are called: the returned pair, the outcome of
\* each collaborator call ("not_called" when it is not made), and the
\* exception that leaves the method ("none": it returns).
process_frame_no_try(frame, analyze, alert) ==
    IF frame = None
    THEN [face_detected |-> FALSE, landmarks |-> None,
          analyze |-> "not_called", alert |-> "not_called", raised |-> "none"]
    ELSE LET landmarks == cam_get_face_landmarks
             fd == is_face_detected
             analyzed == eye_detector # None /\ landmarks # None
             drowsiness_status ==
                 IF analyzed /\ analyze # "raise" THEN analyze ELSE "None"
             alerted == /\ ~(analyzed /\ analyze = "raise")
                        /\ alarm_system # None
                        /\ drowsiness_status # "None"
                        /\ drowsiness_status = "True"
             failed == \/ analyzed /\ analyze = "raise"
                       \/ alerted /\ alert = "raise"
         IN  [face_detected |-> fd, landmarks |-> landmarks,
              analyze |-> IF analyzed THEN analyze ELSE "not_called",
              alert |-> IF alerted THEN alert ELSE "not_called",
              raised |-> IF failed THEN "Exception" ELSE "none"]

process_frame_alert_unconditional(frame, analyze, alert) ==
    IF frame = None
    THEN [face_detected |-> FALSE, landmarks |-> None,
          analyze |-> "not_called", alert |-> "not_called", raised |-> "none"]
    ELSE LET landmarks == cam_get_face_landmarks
             fd == is_face_detected
             analyzed == eye_detector # None /\ landmarks # None
             drowsiness_status ==
                 IF analyzed /\ analyze # "raise" THEN analyze ELSE "None"
             alerted == alarm_system # None
         IN  [face_detected |-> fd, landmarks |-> landmarks,
              analyze |-> IF analyzed THEN analyze ELSE "not_called",
              alert |-> IF alerted THEN alert ELSE "not_called",
              raised |-> "none"]

process_frame(frame, analyze, alert) ==
    IF frame = None
    THEN [face_detected |-> FALSE, landmarks |-> None,
          analyze |-> "not_called", alert |-> "not_called", raised |-> "none"]
    ELSE LET landmarks == cam_get_face_landmarks
             fd == is_face_detected
             analyzed == eye_detector # None /\ landmarks # None
             \* an Exception from analyze_eyes is logged; the status stays None
             drowsiness_status ==
                 IF analyzed /\ analyze # "raise" THEN analyze ELSE "None"
             alerted == /\ alarm_system # None
                        /\ drowsiness_status # "None"
                        /\ drowsiness_status = "True"
         IN  [face_detected |-> fd, landmarks |-> landmarks,
              analyze |-> IF analyzed THEN analyze ELSE "not_called",
              alert |-> IF alerted THEN alert ELSE "not_called",
              \* an Exception from trigger_alert is logged as well
              raised |-> "none"]

\* stop_detection(), where shutdown is what alarm_system.shutdown does if it
\* exists: the new is_running, the camera release, the outcome of the
\* shutdown attempt, and the exception that leaves the method.
stop_detection_no_try(shutdown) ==
    LET attempt == IF alarm_system = None THEN "not_called"
                   ELSE IF ~alarm_system.has_shutdown THEN "AttributeError"
                   ELSE shutdown
    IN  [is_running |-> FALSE, released |-> TRUE, shutdown |-> attempt,
         raised |-> IF attempt \in { "AttributeError", "raise" }
                    THEN "Exception" ELSE "none"]

stop_detection(shutdown) ==
    LET attempt == IF alarm_system = None THEN "not_called"
                   ELSE IF ~alarm_system.has_shutdown THEN "AttributeError"
                   ELSE shutdown
    IN  [is_running |-> FALSE, released |-> TRUE, shutdown |-> attempt,
         \* the bare except swallows whatever the attempt raised
         raised |-> "none"]

\* get_system_status()
get_system_status_swapped ==
    [running |-> is_running,
     frames_processed |-> frame_count,
     face_detected |-> is_face_detected,
     eye_detector_integrated |-> alarm_system # None,
     alarm_system_integrated |-> eye_detector # None]

get_system_status ==
    [running |-> is_running,
     frames_processed |-> frame_count,
     face_detected |-> is_face_detected,
     eye_detector_integrated |-> eye_detector # None,
     alarm_system_integrated |-> alarm_system # None]

\* The state after DrownessDetectionSystem.__init__ (the camera opened).
SystemInit ==
    /\ pc = "idle"
    /\ is_running = FALSE
    /\ frame_count = 0
    /\ eye_detector = None
    /\ alarm_system = None
    /\ cap_opened = TRUE
    /\ current_frame = None
    /\ face_landmarks_data = None
    /\ face_detected = FALSE
    /\ last_face_region = None
    /\ out = None
    /\ read = "none"
    /\ calls = {}
    /\ pf = None
    /\ shown = None
    /\ key = None
    /\ exc = "none"
    /\ stopped = None
    /\ hooks = [eye |-> "None", alarm |-> "None"]

Init ==
    /\ SystemInit
    /\ call = [fn |-> "none", done |-> FALSE]

\* integrate_eye_detection_module(eye_detector)
IntegrateEyeDetectionModule ==
    /\ pc = "idle"
    /\ \E obj \in EyeDetectors \cup { None } :
          /\ eye_detector' = obj
          /\ hooks' = [hooks EXCEPT !.eye = obj.tag]
    /\ UNCHANGED << pc, is_running, frame_count, alarm_system, out, read, calls, pf,
                    shown, key, exc, stopped, camvars, call >>

\* integrate_alarm_module(alarm_system)
IntegrateAlarmModule ==
    /\ pc = "idle"
    /\ \E obj \in AlarmSystems \cup { None } :
          /\ alarm_system' = obj
          /\ hooks' = [hooks EXCEPT !.alarm = obj.tag]
    /\ UNCHANGED << pc, is_running, frame_count, eye_detector, out, read, calls, pf,
                    shown, key, exc, stopped, camvars, call >>

\* start_detection(), up to the first test of the while condition.
StartDetection_resets_count ==
    /\ pc = "idle"
    /\ is_running' = TRUE
    /\ pc' = "capture"
    /\ frame_count' = 0
    /\ UNCHANGED << eye_detector, alarm_system, out, read, calls, pf,
                    shown, key, exc, stopped, hooks, camvars, call >>

StartDetection ==
    /\ pc = "idle"
    /\ is_running' = TRUE
    /\ pc' = "capture"
    /\ UNCHANGED << frame_count, eye_detector, alarm_system, out, read, calls, pf,
                    shown, key, exc, stopped, hooks, camvars, call >>

\* The assignments of one capture_and_detect call.
Captured_stale_landmarks(r) ==
    /\ read' = (IF r.read THEN "ok" ELSE "failed")
    /\ current_frame' = r.current_frame
    /\ face_detected' = r.face_detected
    /\ face_landmarks_data' = face_landmarks_data
    /\ last_face_region' = r.last_face_region
    /\ out' = r.ret
    /\ calls' = r.calls

Captured_keeps_region(r) ==
    /\ read' = (IF r.read THEN "ok" ELSE "failed")
    /\ current_frame' = r.current_frame
    /\ face_detected' = r.face_detected
    /\ face_landmarks_data' = r.face_landmarks_data
    /\ last_face_region' = last_face_region
    /\ out' = r.ret
    /\ calls' = r.calls

Captured(r) ==
    /\ read' = (IF r.read THEN "ok" ELSE "failed")
    /\ current_frame' = r.current_frame
    /\ face_detected' = r.face_detected
    /\ face_landmarks_data' = r.face_landmarks_data
    /\ last_face_region' = r.last_face_region
    /\ out' = r.ret
    /\ calls' = r.calls

\* A read of the camera: it can fail at any time and fails once released.
Reads == { << ok, raw >> \in BOOLEAN \X (CameraFrames \cup { None }) :
             /\ ok => cap_opened
             /\ ok <=> raw # None }

\* Lines 116-118: if frame is None: break
LoopBreaks_never(frame) == FALSE

LoopBreaks(frame) == frame = None

\* Loop body, lines 114-120: capture, leave the loop on a None frame, count.
Capture ==
    /\ pc = "capture"
    /\ is_running
    /\ \E rd \in Reads :
          LET r == capture_and_detect(rd[1], rd[2])
          IN  /\ rd[1] => frame_count < MaxFrames
              /\ Captured(r)
              /\ IF LoopBreaks(r.ret.frame)
                 THEN pc' = "stop" /\ frame_count' = frame_count
                 ELSE pc' = "process" /\ frame_count' = frame_count + 1
    /\ pf' = None
    /\ key' = None
    /\ UNCHANGED << is_running, eye_detector, alarm_system, cap_opened, shown,
                    exc, stopped, hooks, call >>

\* Loop body, line 123: process_frame(frame).
ProcessFrame ==
    /\ pc = "process"
    /\ \E analyze \in AnalyzeOutcomes, alert \in CallOutcomes :
          LET r == process_frame(out.frame, analyze, alert)
          IN  /\ pf' = r
              /\ IF r.raised = "none"
                 THEN pc' = "display" /\ exc' = exc
                 ELSE pc' = "stop" /\ exc' = r.raised
    /\ UNCHANGED << is_running, frame_count, eye_detector, alarm_system, out,
                    read, calls, shown, key, stopped, hooks, camvars, call >>

\* Loop body, line 126: display_frame(frame).
DisplayFrame ==
    /\ pc = "display"
    /\ shown' = IF out.frame # None THEN out.frame ELSE shown
    /\ pc' = "poll"
    /\ UNCHANGED << is_running, frame_count, eye_detector, alarm_system, out,
                    read, calls, pf, key, exc, stopped, hooks, camvars, call >>

\* cv2.waitKey(1) & 0xFF
MaskKey_unmasked(k) == k

MaskKey(k) == k % 256

Key(k) == [tag |-> "key", code |-> k]

QuitKey(k) == MaskKey(k) = 113 \/ MaskKey(k) = 27

\* Loop body, lines 129-132, and the next test of the while condition.
PollKey ==
    /\ pc = "poll"
    /\ \E k \in KeyCodes :
          /\ key' = Key(k)
          /\ pc' = IF QuitKey(k) THEN "stop"
                   ELSE IF is_running THEN "capture" ELSE "stop"
    /\ UNCHANGED << is_running, frame_count, eye_detector, alarm_system, out,
                    read, calls, pf, shown, exc, stopped, hooks, camvars, call >>

\* Ctrl-C while the loop runs: the KeyboardInterrupt clause, line 134.
Interrupt ==
    /\ InLoop
    /\ exc' = "KeyboardInterrupt"
    /\ pc' = "stop"
    /\ UNCHANGED << is_running, frame_count, eye_detector, alarm_system, out,
                    read, calls, pf, shown, key, stopped, hooks, camvars, call >>

\* A vision-library call of the loop (read, imshow, waitKey) raises before it
\* changes anything: the Exception clause, line 136.
LibraryError_no_finally ==
    /\ pc \in { "capture", "display", "poll" }
    /\ exc' = "Exception"
    /\ pc' = "idle"
    /\ UNCHANGED << is_running, frame_count, eye_detector, alarm_system, out,
                    read, calls, pf, shown, key, stopped, hooks, camvars,
                    call >>

LibraryError ==
    /\ pc \in { "capture", "display", "poll" }
    /\ exc' = "Exception"
    /\ pc' = "stop"
    /\ UNCHANGED << is_running, frame_count, eye_detector, alarm_system, out,
                    read, calls, pf, shown, key, stopped, hooks, camvars, call >>

\* The assignments of one stop_detection call.
Stopped(r) ==
    /\ is_running' = r.is_running
    /\ cap_opened' = (cap_opened /\ ~r.released)
    /\ shown' = None
    /\ stopped' = [shutdown |-> r.shutdown, raised |-> r.raised]

\* The finally clause, line 139: stop_detection(), then start_detection
\* returns (or lets the exception of stop_detection through).
StopDetection ==
    /\ pc = "stop"
    /\ \E shutdown \in CallOutcomes : Stopped(stop_detection(shutdown))
    /\ pc' = "idle"
    \* the locals of start_detection are gone once it has returned
    /\ pf' = None
    /\ key' = None
    /\ exc' = "none"
    /\ UNCHANGED << frame_count, eye_detector, alarm_system, current_frame,
                    face_landmarks_data, face_detected, last_face_region, out,
                    read, calls, hooks, call >>

\* stop_detection() called by a client while no loop runs.
StopDetectionCall ==
    /\ pc = "idle"
    /\ \E shutdown \in CallOutcomes : Stopped(stop_detection(shutdown))
    /\ UNCHANGED << pc, frame_count, eye_detector, alarm_system,
                    current_frame, face_landmarks_data, face_detected,
                    last_face_region, out, read, calls, pf, key, exc, hooks,
                    call >>

\* camera_module.capture_and_detect() called by a client of
\* get_camera_module(), outside the loop.
DirectCapture ==
    /\ pc = "idle"
    /\ \E rd \in Reads : Captured(capture_and_detect(rd[1], rd[2]))
    /\ UNCHANGED << pc, is_running, frame_count, eye_detector, alarm_system,
                    cap_opened, pf, shown, key, exc, stopped, hooks, call >>

Next ==
    \/ IntegrateEyeDetectionModule
    \/ IntegrateAlarmModule
    \/ StartDetection
    \/ Capture
    \/ ProcessFrame
    \/ DisplayFrame
    \/ PollKey
    \/ Interrupt
    \/ LibraryError
    \/ StopDetection
    \/ StopDetectionCall
    \/ DirectCapture

Spec == Init /\ [][Next]_vars

\* ------------------------------------------- FaceDetector called directly
\* The methods of FaceDetector keep no state; a client (the test file does)
\* calls them on its own frames.  "call" holds the method and its arguments
\* and, once the call is done, its result.

Returned(ret) == [call EXCEPT !.done = TRUE] @@ [ret |-> ret]

DetectFaceCall ==
    /\ call.fn = "detect_face" /\ ~call.done
    /\ call' = Returned(detect_face(call.frame))
    /\ UNCHANGED << sysvars, camvars >>

GetFaceLandmarksCall ==
    /\ call.fn = "get_face_landmarks" /\ ~call.done
    /\ call' = Returned(get_face_landmarks(call.frame, call.region))
    /\ UNCHANGED << sysvars, camvars >>

ExtractFaceRoiCall ==
    /\ call.fn = "extract_face_roi" /\ ~call.done
    /\ call' = Returned(extract_face_roi(call.frame, call.detection))
    /\ UNCHANGED << sysvars, camvars >>

\* The calls made: detect_face on every camera frame; get_face_landmarks
\* with face_region None (the default) or a crop of the frame;
\* extract_face_roi with no detection, and on every frame shape up to
\* RoiDim x RoiDim with every rectangle inside it.
InitDetector ==
    /\ SystemInit
    /\ \/ \E frame \in CameraFrames :
             call = [fn |-> "detect_face", frame |-> frame, done |-> FALSE]
       \/ \E frame \in CameraFrames :
          \E region \in { None } \cup
                        { extract_face_roi(frame, f) : f \in FaceRects } :
             call = [fn |-> "get_face_landmarks", frame |-> frame,
                     region |-> region, done |-> FALSE]
       \/ \E frame \in CameraFrames :
             call = [fn |-> "extract_face_roi", frame |-> frame,
                     detection |-> None, done |-> FALSE]
       \/ \E w_frame \in 1..RoiDim, h_frame \in 1..RoiDim :
          \E x \in 0..(w_frame - 1), y \in 0..(h_frame - 1) :
          \E w \in 1..(w_frame - x), h \in 1..(h_frame - y) :
             call = [fn |-> "extract_face_roi",
                     frame |-> RawFrame(w_frame, h_frame, << >>, 0),
                     detection |-> Rect(x, y, w, h), done |-> FALSE]

NextDetector ==
    \/ DetectFaceCall
    \/ GetFaceLandmarksCall
    \/ ExtractFaceRoiCall

SpecDetector == InitDetector /\ [][NextDetector]_vars

\* ------------------------------------------------------------------ claims

\* C1: detect_face keeps only the largest rectangle.  For a non-empty cascade
\* result the detections list holds exactly one rectangle, which is one of
\* the cascade's rectangles and whose area w*h is at least the area of every
\* rectangle of the cascade, and face_detected is True; for an empty cascade
\* result detections is None and face_detected is False.
C1_LargestFaceKept ==
    (call.fn = "detect_face" /\ call.done) =>
        LET faces == face_cascade(call.frame)
            r == call.ret
        IN  IF Len(faces) > 0
            THEN /\ r.detections # None
                 /\ Len(r.detections.items) = 1
                 /\ \E i \in 1..Len(faces) : faces[i] = r.detections.items[1]
                 /\ \A i \in 1..Len(faces) :
                        Area(r.detections.items[1]) >= Area(faces[i])
                 /\ r.face_detected = TRUE
            ELSE /\ r.detections = None
                 /\ r.face_detected = FALSE

\* C1 witness: detect_face ran on a frame with two faces of different areas,
\* the smaller one reported first.
C1_Witness ==
    /\ call.fn = "detect_face" /\ call.done
    /\ Len(face_cascade(call.frame)) = 2
    /\ Area(face_cascade(call.frame)[1]) < Area(face_cascade(call.frame)[2])
    /\ call.ret.detections.items = << face_cascade(call.frame)[2] >>

\* C2: get_face_landmarks reports landmarks found (a dictionary and True)
\* if and only if a face region was passed and the eye cascade returned at
\* least two rectangles in it; otherwise it returns None and False.
C2_LandmarksIffTwoEyes ==
    (call.fn = "get_face_landmarks" /\ call.done) =>
        LET r == call.ret
            two == call.region # None /\ Len(eye_cascade(call.region)) >= 2
        IN  /\ two => r.landmarks_detected = TRUE /\ r.landmarks_data # None
                      /\ r.landmarks_data.tag = "dict"
            /\ ~two => r.landmarks_detected = FALSE /\ r.landmarks_data = None

\* C2 witness: a face region with exactly one eye rectangle was passed, and
\* no landmarks were reported.
C2_Witness ==
    /\ call.fn = "get_face_landmarks" /\ call.done
    /\ call.region # None
    /\ Len(eye_cascade(call.region)) = 1
    /\ call.ret.landmarks_detected = FALSE

\* C7: for a detection that lies inside the frame (x >= 0, y >= 0, w > 0,
\* h > 0, x + w <= w_frame, y + h <= h_frame) the crop bounds satisfy
\* 0 <= x_min <= x, x + w <= x_max <= w_frame, 0 <= y_min <= y and
\* y + h <= y_max <= h_frame.
C7_RoiInsideFrameAroundFace ==
    (call.fn = "extract_face_roi" /\ call.done /\ call.detection # None) =>
        LET d == call.detection
            f == call.frame
            r == call.ret
        IN  (d.x >= 0 /\ d.y >= 0 /\ d.w > 0 /\ d.h > 0
             /\ d.x + d.w <= f.w /\ d.y + d.h <= f.h) =>
                /\ r # None
                /\ 0 <= r.x_min /\ r.x_min <= d.x
                /\ d.x + d.w <= r.x_max /\ r.x_max <= f.w
                /\ 0 <= r.y_min /\ r.y_min <= d.y
                /\ d.y + d.h <= r.y_max /\ r.y_max <= f.h

\* C7 witness: a face at the left edge of the frame, wide enough for a
\* margin of one pixel, so that the left bound is clipped at 0 while the
\* right and lower bounds take the margin.
C7_Witness ==
    /\ call.fn = "extract_face_roi" /\ call.done
    /\ call.detection # None
    /\ call.detection.x = 0
    /\ roi_margin(call.detection) >= 1
    /\ call.ret.x_min = 0
    /\ call.ret.x_max = call.detection.x + call.detection.w + 1
    /\ call.ret.y_max = call.detection.y + call.detection.h + 1

\* The tuple capture_and_detect returns when the read fails.
FailedCapture == [frame |-> None, face_detected |-> FALSE, landmarks |-> None]

\* C3: the main loop exits on capture failure.  In the iteration whose
\* capture_and_detect returns frame None there is no process_frame, no
\* display_frame and no key poll, frame_count is not incremented, and the
\* only step that follows is stop_detection, after which start_detection
\* has returned.
C3_LoopExitsOnCaptureFailure ==
    [][ /\ (pc = "capture" /\ read' = "failed" /\ exc' = "none") =>
            /\ out' = FailedCapture
            /\ pc' = "stop"
            /\ frame_count' = frame_count
            /\ pf' = None /\ key' = None /\ shown' = shown
        /\ pc = "stop" =>
            /\ pc' = "idle"
            /\ stopped' # None
            /\ frame_count' = frame_count
            /\ out' = out /\ read' = read
            /\ pf' = None /\ key' = None ]_vars

\* C3 witness: the second capture of a run failed after one frame was
\* processed; control stands before stop_detection.
C3_Witness ==
    /\ pc = "stop" /\ exc = "none"
    /\ read = "failed"
    /\ out = FailedCapture
    /\ frame_count = 1
    /\ key = None /\ pf = None

\* C4: when the camera read fails, capture_and_detect returns exactly
\* (None, False, None), calls neither the face cascade nor the eye cascade,
\* and get_frame leaves current_frame at its previous value.
C4_FailedReadReturnsNothing ==
    [][ read' = "failed" =>
            /\ out' = FailedCapture
            /\ calls' = { "read" }
            /\ current_frame' = current_frame ]_vars

\* C4 witness: a read failed after an earlier frame had been captured; the
\* earlier frame is still the current frame.
C4_Witness ==
    /\ read = "failed"
    /\ current_frame # None
    /\ out = FailedCapture
    /\ calls = { "read" }

\* C5: after every call of capture_and_detect, successful or not,
\* is_face_detected() and get_face_landmarks() return exactly the
\* face_detected and landmark values that this call returned.
C5_AccessorsMatchLastCall ==
    read # "none" =>
        /\ is_face_detected = out.face_detected
        /\ cam_get_face_landmarks = out.landmarks

\* C6: an Exception raised by analyze_eyes or trigger_alert never leaves
\* process_frame.  process_frame still returns the camera module's
\* (face_detected, landmarks) pair, and the loop goes on: the frame is
\* displayed, the key is polled, and unless a quit key was polled the next
\* frame is captured.
C6_CollaboratorErrorsSwallowed ==
    [][ /\ (pc = "process" /\ pf' # None) =>
            /\ pf'.raised = "none"
            /\ pf'.face_detected = is_face_detected
            /\ pf'.landmarks = cam_get_face_landmarks
            /\ pc' = "display" /\ exc' = "none"
        /\ (pc = "display" /\ exc' = "none") =>
            /\ shown' = out.frame /\ pc' = "poll" /\ pf' = pf
        /\ (pc = "poll" /\ exc' = "none") =>
            /\ key' # None
            /\ pc' = IF QuitKey(key'.code) THEN "stop" ELSE "capture"
            /\ pf' = pf ]_vars

\* C6 witness: trigger_alert raised in this iteration, the frame was
\* displayed and the key polled, and the loop stands before the next capture.
C6_Witness ==
    /\ pc = "capture"
    /\ pf # None
    /\ pf.analyze = "True"
    /\ pf.alert = "raise"
    /\ shown = out.frame
    /\ key # None

\* C8: with an eye detector and an alarm object that has no shutdown method
\* integrated, start_detection still completes stop_detection: when it
\* returns the camera is released, is_running is False and no exception
\* reaches the caller.
C8_MissingShutdownIsHarmless ==
    [][ (/\ pc = "stop"
         /\ eye_detector # None
         /\ alarm_system # None
         /\ ~alarm_system.has_shutdown) =>
            /\ pc' = "idle"
            /\ ~is_running'
            /\ ~cap_opened'
            /\ stopped' # None
            /\ stopped'.shutdown = "AttributeError"
            /\ stopped'.raised = "none" ]_vars

\* C8 witness: a run that processed a frame has returned; the shutdown
\* attempt on the alarm object without shutdown raised AttributeError.
C8_Witness ==
    /\ pc = "idle"
    /\ frame_count >= 1
    /\ eye_detector # None
    /\ alarm_system # None
    /\ stopped # None
    /\ stopped.shutdown = "AttributeError"
    /\ stopped.raised = "none"
    /\ ~is_running /\ ~cap_opened

\* C9: on every successful capture the face_detected value returned by
\* capture_and_detect is a Boolean, and it is True exactly when the face
\* cascade found at least one face in that frame, whatever the number of
\* eyes found in the face region.
C9_FaceDetectedIffFaceFound ==
    read = "ok" =>
        /\ out.face_detected \in BOOLEAN
        /\ out.face_detected <=> Len(face_cascade(current_frame)) > 0

\* C9 witness: a frame with a face and a single eye rectangle was captured
\* and face_detected was returned True.
C9_Witness ==
    /\ read = "ok"
    /\ Len(face_cascade(current_frame)) > 0
    /\ current_frame.eyes = 1
    /\ out.face_detected = TRUE
    /\ out.landmarks = None

\* No operation other than an integrate hook passing None has been called.
Fresh ==
    /\ pc = "idle" /\ read = "none" /\ stopped = None
    /\ hooks = [eye |-> "None", alarm |-> "None"]

\* C10: get_system_status reflects the system state.  A fresh system
\* reports running False, frames_processed 0, face_detected False and both
\* integration flags False; eye_detector_integrated (alarm_system_integrated)
\* is True exactly when the last integrate_eye_detection_module
\* (integrate_alarm_module) call passed an object that is not None; a hook
\* leaves the other flag, running and frames_processed unchanged; running
\* is True only while start_detection is executing.
C10_StatusReflectsState ==
    /\ [](Fresh => get_system_status =
                     [running |-> FALSE, frames_processed |-> 0,
                      face_detected |-> FALSE,
                      eye_detector_integrated |-> FALSE,
                      alarm_system_integrated |-> FALSE])
    /\ [](/\ get_system_status.eye_detector_integrated
              <=> hooks.eye # "None"
          /\ get_system_status.alarm_system_integrated
              <=> hooks.alarm # "None"
          /\ get_system_status.running => pc # "idle")
    /\ [][ /\ hooks'.eye # hooks.eye =>
               /\ get_system_status'.alarm_system_integrated
                    = get_system_status.alarm_system_integrated
               /\ get_system_status'.running = get_system_status.running
               /\ get_system_status'.frames_processed
                    = get_system_status.frames_processed
           /\ hooks'.alarm # hooks.alarm =>
               /\ get_system_status'.eye_detector_integrated
                    = get_system_status.eye_detector_integrated
               /\ get_system_status'.running = get_system_status.running
               /\ get_system_status'.frames_processed
                    = get_system_status.frames_processed ]_vars

\* C10 witness: the loop runs with an eye detector integrated and the alarm
\* slot set back to None by a later hook call, one frame processed.
C10_Witness ==
    /\ get_system_status.running
    /\ get_system_status.frames_processed = 1
    /\ get_system_status.eye_detector_integrated
    /\ ~get_system_status.alarm_system_integrated
    /\ hooks = [eye |-> "eye_detector", alarm |-> "None"]

\* C11: each iteration of the loop runs capture, process_frame, display
\* and key poll in that order on one frame.  The (face_detected, landmarks)
\* pair process_frame reads from the camera module, and hands to the eye
\* detector, is the pair capture_and_detect returned in this iteration, and
\* between the capture and the key poll nothing is captured again.
C11_OneFramePerIteration ==
    [][ /\ (pc = "capture" /\ exc' = "none" /\ read' = "ok") =>
            pc' = "process" /\ pf' = None /\ key' = None
        /\ (pc = "process" /\ exc' = "none") =>
            /\ read = "ok"
            /\ pf' # None
            /\ pf'.face_detected = out.face_detected
            /\ pf'.landmarks = out.landmarks
            /\ pf'.analyze # "not_called" =>
                   out.landmarks # None /\ out.landmarks.tag = "dict"
            /\ pc' = "display"
        /\ (pc = "display" /\ exc' = "none") =>
            shown' = out.frame /\ pc' = "poll"
        /\ (pc = "poll" /\ exc' = "none") =>
            key' # None /\ pc' \in { "capture", "stop" }
        /\ pc \in { "process", "display", "poll" } =>
            /\ out' = out /\ read' = read /\ calls' = calls
            /\ UNCHANGED camvars
            /\ frame_count' = frame_count ]_vars

\* C11 witness: an iteration on a frame with landmarks is complete: the eye
\* detector was handed the landmarks capture_and_detect returned, the frame
\* was displayed and the key polled.
C11_Witness ==
    /\ pc = "capture"
    /\ read = "ok"
    /\ pf # None /\ key # None
    /\ out.landmarks # None
    /\ pf.landmarks = out.landmarks
    /\ pf.analyze = "True"
    /\ shown = out.frame

\* The shapes of one kind drawn into a frame.
Marks(frame, kind) == { m \in frame.marks : m[1] = kind }

\* C12: the annotated frame capture_and_detect returns is the processed
\* frame with landmarks.  Whenever landmarks are detected, the eye
\* rectangles are drawn into the returned frame, together with the face box,
\* and the raw frame held in camera.current_frame is left unmodified.
C12_EyesDrawnIntoReturnedFrame ==
    (read = "ok" /\ out.landmarks # None) =>
        /\ Cardinality(Marks(out.frame, "face")) = 1
        /\ Cardinality(Marks(out.frame, "eye")) = out.landmarks.eye_count
        /\ current_frame.marks = {}

\* The crop of a frame with a margin of mx pixels left and right of the
\* detection and my pixels above and below it, clipped at the frame edges.
CropWithMargins(f, d, mx, my) ==
    [x_min |-> Max(0, d.x - mx), x_max |-> Min(f.w, d.x + d.w + mx),
     y_min |-> Max(0, d.y - my), y_max |-> Min(f.h, d.y + d.h + my)]

Bounds(roi) ==
    [x_min |-> roi.x_min, x_max |-> roi.x_max,
     y_min |-> roi.y_min, y_max |-> roi.y_max]

\* C13 as stated: the ROI extends the face rectangle by 10% of the face's
\* width to the left and right and by 10% of its height above and below,
\* truncated to an integer, except where the frame edge clips it.
C13_MarginTenthOfEachSide ==
    (call.fn = "extract_face_roi" /\ call.done /\ call.detection # None) =>
        Bounds(call.ret) =
            CropWithMargins(call.frame, call.detection,
                            call.detection.w \div 10, call.detection.h \div 10)

\* C13 as amended: the ROI extends the face rectangle by int(0.1 * w), 10%
\* of the face's width truncated to an integer, on each of its four sides,
\* also above and below, except where the frame edge clips it.
C13_MarginTenthOfWidth ==
    (call.fn = "extract_face_roi" /\ call.done /\ call.detection # None) =>
        Bounds(call.ret) =
            CropWithMargins(call.frame, call.detection,
                            call.detection.w \div 10, call.detection.w \div 10)

\* C13 witness: a face ten pixels wide and less than ten high, away from the
\* upper and lower frame edges: the crop takes one pixel above and below.
C13_Witness ==
    /\ call.fn = "extract_face_roi" /\ call.done
    /\ call.detection # None
    /\ call.detection.w \div 10 = 1
    /\ call.detection.h \div 10 = 0
    /\ call.ret.y_min = call.detection.y - 1
    /\ call.ret.y_max = call.detection.y + call.detection.h + 1

\* C14: the loop quits on 'q' or ESC and on no other key poll result.
\* After the key poll the loop ends exactly when the polled key code,
\* reduced to its low 8 bits, is 113 or 27; for a poll that reports no key
\* (-1, 255 after masking) and for any other key the next frame is captured.
C14_QuitOnQOrEsc ==
    [][ (pc = "poll" /\ exc' = "none") =>
            /\ key' # None
            /\ (key'.code % 256 \in { 113, 27 }) => pc' = "stop"
            /\ (key'.code % 256 \notin { 113, 27 }) => pc' = "capture"
            /\ key'.code = -1 => (key'.code % 256 = 255 /\ pc' = "capture")
            /\ is_running' ]_vars

\* C14 witness: the poll returned 'q' with a bit above the low eight set
\* (369), and the loop ended.
C14_Witness ==
    /\ pc = "stop" /\ exc = "none"
    /\ key # None
    /\ key.code = 369
    /\ read = "ok"

\* C15: frame_count, reported as frames_processed, is the number of
\* successful captures start_detection has made since the system was
\* constructed.  It starts at 0, grows by exactly 1 in a loop iteration
\* whose capture succeeded and is changed by nothing else: not by a failed
\* capture, process_frame, the integrate hooks, stop_detection or a second
\* start_detection call.
C15_FrameCountCountsCaptures ==
    /\ frame_count = 0
    /\ [](get_system_status.frames_processed = frame_count)
    /\ [][ /\ frame_count' =
                 frame_count
                 + (IF pc = "capture" /\ exc' = "none" /\ read' = "ok"
                    THEN 1 ELSE 0)
           /\ (pc = "capture" /\ exc' = "none" /\ read' = "ok") =>
                 out'.frame # None /\ pc' = "process"
           /\ frame_count' >= frame_count ]_vars

\* C15 witness: a second start_detection call stands before its first
\* capture, the count of the first run's two captures kept.
C15_Witness ==
    /\ pc = "capture"
    /\ stopped # None
    /\ is_running
    /\ frame_count = 2

\* C16: in any run of start_detection, trigger_alert is called at most
\* once per captured frame, and only in an iteration where the capture
\* succeeded, at least two eyes were detected in that frame (landmarks are
\* present), an eye detector is integrated and its analyze_eyes call on
\* those landmarks returned a truthy value without raising, and an alarm
\* system is integrated.  With no eye detector integrated it is never
\* called.
C16_AlertOnlyWhenDrowsy ==
    /\ []((pf # None /\ pf.alert # "not_called") =>
            /\ InLoop \/ pc = "stop"
            /\ read = "ok"
            /\ out.frame # None
            /\ out.landmarks # None
            /\ out.landmarks.eye_count >= 2
            /\ Len(eye_cascade(current_frame)) >= 2
            /\ pf.landmarks = out.landmarks
            /\ eye_detector # None
            /\ pf.analyze = "True"
            /\ alarm_system # None)
    /\ []((pf # None /\ eye_detector = None) => pf.alert = "not_called")
    \* process_frame runs once per captured frame, so the alert does too
    /\ [][ pf' # pf =>
             \/ pf = None /\ pc = "process" /\ pc' = "display"
             \/ pf' = None /\ (pc = "capture" \/ pc = "stop") ]_vars

\* C16 witness: trigger_alert was called, and returned, for a frame with
\* three eye rectangles.
C16_Witness ==
    /\ pf # None
    /\ pf.alert = "ok"
    /\ pf.analyze = "True"
    /\ out.landmarks # None
    /\ out.landmarks.eye_count = 3
    /\ pc = "poll"

\* C17: every way start_detection can end (quit key, capture failure,
\* KeyboardInterrupt, another exception raised inside the loop) runs
\* stop_detection once before start_detection returns.  When it returns,
\* is_running is False, the camera has been released and, if an alarm system
\* is integrated, its shutdown was attempted once, an exception from it
\* being swallowed.  No frame is captured after the camera was released.
C17_EveryExitStops ==
    [][ \* the loop is left towards the finally clause only
        /\ (InLoop /\ ~InLoop') => pc' = "stop"
        \* start_detection returns through stop_detection only
        /\ (pc # "idle" /\ pc' = "idle") => pc = "stop"
        /\ pc = "stop" =>
            /\ pc' = "idle"
            /\ ~is_running'
            /\ ~cap_opened'
            /\ stopped' # None
            /\ stopped'.raised = "none"
            /\ alarm_system = None => stopped'.shutdown = "not_called"
            /\ alarm_system # None =>
                 stopped'.shutdown \in { "ok", "raise", "AttributeError" }
        \* stop_detection runs in no other step of a run
        /\ (pc # "idle" /\ pc # "stop") =>
            /\ stopped' = stopped
            /\ cap_opened' = cap_opened
            /\ is_running' = is_running
        \* once released, the camera delivers no frame
        /\ ~cap_opened =>
            /\ ~cap_opened'
            /\ read' # "ok" \/ (read' = read /\ out' = out)
            /\ current_frame' = current_frame
            /\ frame_count' = frame_count ]_vars

\* C17 witness: a run that processed a frame has returned; the shutdown of
\* the integrated alarm system raised and the exception was swallowed.
C17_Witness ==
    /\ pc = "idle"
    /\ frame_count >= 1
    /\ alarm_system # None
    /\ stopped # None
    /\ stopped.shutdown = "raise"
    /\ stopped.raised = "none"
    /\ ~is_running
    /\ ~cap_opened

\* C18: after any sequence of capture_and_detect calls, if
\* face_landmarks_data is not None then face_detected is True, the
\* dictionary's eye_count equals the number of entries of its eyes list and
\* is at least 2, and its face_region is the ROI stored in last_face_region.
C18_StoredLandmarksConsistent ==
    face_landmarks_data # None =>
        /\ face_detected = TRUE
        /\ face_landmarks_data.eye_count = Len(face_landmarks_data.eyes)
        /\ face_landmarks_data.eye_count >= 2
        /\ last_face_region # None
        /\ face_landmarks_data.face_region = last_face_region

\* C18 witness: landmarks with three eyes were stored by one call and a
\* later call failed to read; the stored dictionary is still in place.
C18_Witness ==
    /\ read = "failed"
    /\ face_landmarks_data # None
    /\ face_landmarks_data.eye_count = 3
    /\ face_landmarks_data.face_region = last_face_region
    /\ face_detected = TRUE

====
